---- MODULE Spec2Model ----
(***************************************************************************)
(* Supervised Random Walk recommender of ghanalyzer                        *)
(* (ghanalyzer/algorithms/recommenders/supervisedrw.py), together with the *)
(* graph loader that feeds it (ghanalyzer/io/graphs.py).                   *)
(*                                                                         *)
(* Numbers are exact rationals extended with the IEEE special values the   *)
(* code can produce (+inf, -inf, nan).  Matrices and vectors are indexed   *)
(* by the graph's nodes: node_indices is a bijection between the nodes and *)
(* the positions 0..N-1, and the model identifies a position with its      *)
(* node.  A sparse matrix is represented by its dense value, an entry      *)
(* that is not stored being 0: the sparse products and differences of      *)
(* scipy drop the zeros they compute, and dia_matrix drops the zeros of    *)
(* its diagonal, so a 0 never meets an inf in a product (SpMul).           *)
(* alpha is strictly between 0 and 1.                                      *)
(***************************************************************************)
EXTENDS Integers, FiniteSets, Sequences, TLC

(***************************************************************************)
(* Bounds                                                                  *)
(***************************************************************************)
\* number of Repository ids that occur in the data files
MaxRepos == 2
\* largest configured max_steps
MaxSteps == 2
\* number of Repository ids in the data files behind SampleSpec, which stops
\* at the samples and can afford larger graphs
MaxSampleRepos == 4
\* ids of the User entities and of the Organization entities in the data
UserIds == {1, 2}
OrgIds == {1}
RepoIds == 1..MaxRepos
SampleRepoIds == 1..MaxSampleRepos
\* teleportation probabilities a recommender is configured with
\* (numerator, denominator)
AlphaChoices == {<<1, 2>>, <<3, 4>>}
\* the weight vectors the optimizer evaluates
WeightChoices == {<<0, 0>>, <<1, 0>>, <<0, 1>>}

(***************************************************************************)
(* Floating point values: [n, d] with d > 0 is the rational n/d in lowest  *)
(* terms; d = 0 holds +inf (n = 1), -inf (n = -1) and nan (n = 0).         *)
(***************************************************************************)
RECURSIVE GCD(_, _)
GCD(a, b) == IF b = 0 THEN a ELSE GCD(b, a % b)

AbsInt(x) == IF x < 0 THEN -x ELSE x

SignInt(x) == IF x < 0 THEN -1 ELSE IF x > 0 THEN 1 ELSE 0

\* the value n/d for d > 0, in lowest terms
Rat(n, d) ==
    LET g == GCD(AbsInt(n), d)
    IN  [n |-> SignInt(n) * (AbsInt(n) \div g), d |-> d \div g]

Zero == [n |-> 0, d |-> 1]
One == [n |-> 1, d |-> 1]
NaN == [n |-> 0, d |-> 0]

IsFinite(a) == a.d > 0
IsNaN(a) == a.d = 0 /\ a.n = 0

Neg(a) == [n |-> -a.n, d |-> a.d]

Add(a, b) ==
    IF IsFinite(a) /\ IsFinite(b) THEN
        LET g == GCD(a.d, b.d)
        IN  Rat(a.n * (b.d \div g) + b.n * (a.d \div g), (a.d \div g) * b.d)
    ELSE IF IsNaN(a) \/ IsNaN(b) THEN NaN
    ELSE IF IsFinite(a) THEN b
    ELSE IF IsFinite(b) THEN a
    ELSE IF a.n = b.n THEN a ELSE NaN

Sub(a, b) == Add(a, Neg(b))

Mul(a, b) ==
    IF IsFinite(a) /\ IsFinite(b) THEN
        LET g == GCD(AbsInt(a.n), b.d)
            h == GCD(AbsInt(b.n), a.d)
        IN  Rat((a.n \div g) * (b.n \div h), (a.d \div h) * (b.d \div g))
    ELSE IF IsNaN(a) \/ IsNaN(b) THEN NaN
    ELSE IF a.n = 0 \/ b.n = 0 THEN NaN
    ELSE [n |-> SignInt(a.n) * SignInt(b.n), d |-> 0]

\* a / b as numpy divides floats: x/0 is +-inf, 0/0 is nan, no exception
Div(a, b) ==
    IF IsNaN(a) \/ IsNaN(b) THEN NaN
    ELSE IF IsFinite(b) THEN
        IF b.n = 0 THEN [n |-> SignInt(a.n), d |-> 0]
        ELSE IF IsFinite(a) THEN
            Mul(a, [n |-> SignInt(b.n) * b.d, d |-> AbsInt(b.n)])
        ELSE [n |-> a.n * SignInt(b.n), d |-> 0]
    ELSE IF IsFinite(a) THEN Zero ELSE NaN

AbsVal(a) == [n |-> AbsInt(a.n), d |-> a.d]

\* a < b on floats: false whenever an operand is nan
Less(a, b) ==
    IF IsNaN(a) \/ IsNaN(b) THEN FALSE
    ELSE IF IsFinite(a) /\ IsFinite(b) THEN
        LET g == GCD(a.d, b.d)
        IN  a.n * (b.d \div g) < b.n * (a.d \div g)
    ELSE IF IsFinite(a) THEN b.n = 1
    ELSE IF IsFinite(b) THEN a.n = -1
    ELSE a.n < b.n

\* the product of two entries in a sparse matrix product: an entry that is
\* not stored contributes nothing, whatever the other factor is
SpMul(a, b) == IF a = Zero \/ b = Zero THEN Zero ELSE Mul(a, b)

RECURSIVE SumOver(_, _)
\* the sum of f[x] over the finite set S
SumOver(f, S) ==
    IF S = {} THEN Zero
    ELSE LET x == CHOOSE y \in S : TRUE
         IN  Add(f[x], SumOver(f, S \ {x}))

\* the larger of two floats as np.max propagates it: nan if either is nan
Max2(a, b) == IF IsNaN(a) \/ IsNaN(b) THEN NaN ELSE IF Less(b, a) THEN a ELSE b

RECURSIVE MaxOver(_, _)
\* np.max of f over the non-empty set S
MaxOver(f, S) ==
    LET x == CHOOSE y \in S : TRUE
    IN  IF S = {x} THEN f[x] ELSE Max2(f[x], MaxOver(f, S \ {x}))

(***************************************************************************)
(* Entities and graphs (ghanalyzer/io/graphs.py)                           *)
(***************************************************************************)
User == "User"
Repository == "Repository"
Organization == "Organization"

\* the ids of the entities of a class that occur in the data files, repos
\* being the ids of the repositories
Ids(cls, repos) ==
    IF cls = User THEN UserIds
    ELSE IF cls = Repository THEN repos
    ELSE OrgIds

\* an entity: its class and its id
Entity(cls, id) == <<cls, id>>

isinstance(node, cls) == node[1] = cls

GRAPH_METADATA ==
    [t \in {"collaborator", "contributor", "follow", "membership",
            "stargazer", "subscriber"} |->
        [directed |-> (t = "follow"),
         head |-> IF t = "follow" THEN User
                  ELSE IF t = "membership" THEN Organization
                  ELSE Repository,
         tail |-> User]]

\* nx.Graph() / nx.DiGraph(): the node dict and the adjacency (successor)
\* relation
EmptyGraph == [node |-> {}, adj |-> {}]

\* graph.add_edge(tail, head): an undirected graph stores both directions
add_edge(g, directed, tail, head) ==
    [node |-> g.node \cup {tail, head},
     adj |-> g.adj \cup {<<tail, head>>}
                   \cup (IF directed THEN {} ELSE {<<head, tail>>})]

\* graph.neighbors(u), graph[u]: the successors of u
neighbors(g, u) == {v \in g.node : <<u, v>> \in g.adj}

(***************************************************************************)
(* Features                                                                *)
(***************************************************************************)
\* number of feature columns (self.M)
M == 2
FeatureIndex == 1..M

\* the attribute of an entity in the item files, after standardisation
Attribute(node) ==
    IF isinstance(node, Organization) THEN 0
    ELSE IF node[2] % 3 = 1 THEN 1
    ELSE IF node[2] % 3 = 2 THEN -1
    ELSE 0

\* EdgeFeature._find_node: the first node of the edge that is of class cls
find_node(edge, cls) ==
    IF isinstance(edge[1], cls) THEN <<edge[1]>>
    ELSE IF isinstance(edge[2], cls) THEN <<edge[2]>>
    ELSE <<>>

\* NodeFeature._get_feature: the attribute of the edge's node of class cls;
\* the row stays zero when the edge has no such node
get_feature(edge, cls) ==
    LET target == find_node(edge, cls)
    IN  IF target = <<>> THEN 0 ELSE Attribute(target[1])

\* the E x M feature matrix: column 1 from the User of the edge, column 2
\* from its Repository
get_feature_matrix(edges) ==
    [e \in edges |->
        [k \in FeatureIndex |->
            IF k = 1 THEN get_feature(e, User) ELSE get_feature(e, Repository)]]

(***************************************************************************)
(* Configuration and state                                                 *)
(***************************************************************************)
\* the default convergence tolerance, epsilon=0.01
epsilon == Rat(1, 100)

VARIABLES
    metadata,     \* load_graph: the metadata of the graph type being loaded
    graph,        \* the graph
    alpha,        \* self.alpha
    max_steps,    \* self.max_steps
    pc,           \* the position of the program
    nodes,        \* self.nodes
    candidates,   \* self.candidates
    features,     \* self.features
    user,         \* recommend: the root user
    positive,     \* _select_samples: the positive samples
    negative,     \* _select_samples: the negative samples, a list
    pairs,        \* _get_rank: the (negative, positive) pairs
    phase,        \* "loss" inside _loss_function, "final" after the optimizer
    w,            \* the weight vector the walk is computed for
    A,            \* edge strengths
    dA,           \* their derivatives
    Q,            \* transition matrix
    dQ,           \* its derivative, per feature
    P,            \* _get_stationary_distribution: P
    P1,           \* _get_stationary_distribution: P1, the last computed iterate
    converged,    \* _get_stationary_distribution: converged
    delta,        \* _get_stationary_distribution: delta
    steps,        \* iterations of the primal loop run so far
    warned,       \* whether the primal call printed its warning
    dP,           \* _get_stationary_distribution_derivative: dP
    dPm,          \* per feature, the last computed iterate dPm
    m,            \* the feature the derivative loop is at
    dconverged,   \* per feature, the value of converged its loop ended with
    dsteps,       \* per feature, the iterations its loop has run
    dwarned,      \* the features whose loop printed the warning
    rank,         \* recommend: the filtered rank dict
    n,            \* recommend: the number of recommendations asked for
    result        \* recommend: the nodes of the value returned

vars == <<metadata, graph, alpha, max_steps, pc, nodes, candidates, features,
          user, positive, negative, pairs, phase, w, A, dA, Q, dQ, P, P1,
          converged, delta, steps, warned, dP, dPm, m, dconverged, dsteps,
          dwarned, rank, n, result>>

trainVars == <<nodes, candidates, features>>
sampleVars == <<user, positive, negative, pairs>>
walkVars == <<w, A, dA, Q, dQ>>
primalVars == <<P, P1, converged, delta, steps, warned>>
derivVars == <<dP, dPm, m, dconverged, dsteps, dwarned>>
configVars == <<metadata, alpha, max_steps>>
resultVars == <<rank, n, result>>

(***************************************************************************)
(* The walk (supervisedrw.py)                                              *)
(***************************************************************************)
\* 1 / (1 + exp(-x)) at the integer x, to the nearest dyadic rational with
\* denominator 2^(|x|+1): 1/2 at 0, increasing, inside (0, 1), and
\* sigmoid(-x) = 1 - sigmoid(x)
sigmoid(x) ==
    IF x >= 0 THEN Rat(2^(x + 1) - 1, 2^(x + 1)) ELSE Rat(1, 2^(1 - x))

RECURSIVE einsum(_, _, _)
\* np.einsum('ij,j->i', features, w) for one row: the sum of f[j] * v[j]
\* over the columns 1..k
einsum(f, v, k) == IF k = 0 THEN 0 ELSE f[k] * v[k] + einsum(f, v, k - 1)

\* _get_edge_strength(w): A and dA, per edge
get_edge_strength(ww) ==
    LET S == [e \in graph.adj |-> einsum(features[e], ww, M)]
        AA == [e \in graph.adj |-> sigmoid(S[e])]
    IN  [A |-> AA,
         dA |-> [e \in graph.adj |->
                    [k \in FeatureIndex |->
                        Mul(Mul(AA[e], Sub(One, AA[e])), Rat(features[e][k], 1))]]]

\* coo_matrix((data, (self.row, self.col))): the entry of row i, column j
coo(data, i, j) == IF <<i, j>> \in graph.adj THEN data[<<i, j>>] ELSE Zero

\* the sum of row i of the matrix X
rowsum(X, i) == SumOver(X[i], nodes)

\* _get_transition_probability without the l1 normalisation of the rows
get_transition_probability_unnormalized(AA, root) ==
    [i \in nodes |-> [j \in nodes |->
        Add(Mul(coo(AA, i, j), Sub(One, alpha)),
            IF j = root THEN alpha ELSE Zero)]]

\* _get_transition_probability(A, root)
get_transition_probability(AA, root) ==
    LET F == [i \in nodes |-> [j \in nodes |-> coo(AA, i, j)]]
        norms == [i \in nodes |-> rowsum(F, i)]
        \* normalize(Q, norm='l1'): a row of norm 0 is left as it is
        normalized(i, j) ==
            IF norms[i] = Zero THEN F[i][j] ELSE Div(F[i][j], norms[i])
    IN  [i \in nodes |-> [j \in nodes |->
            Add(Mul(normalized(i, j), Sub(One, alpha)),
                IF j = root THEN alpha ELSE Zero)]]

\* _get_transition_probability_derivative(A, dA): per feature, a matrix
get_transition_probability_derivative(AA, dAA) ==
    LET F == [i \in nodes |-> [j \in nodes |-> coo(AA, i, j)]]
        norm_F == [i \in nodes |-> rowsum(F, i)]
    IN  [k \in FeatureIndex |->
            LET dFm == [i \in nodes |-> [j \in nodes |->
                           IF <<i, j>> \in graph.adj THEN dAA[<<i, j>>][k] ELSE Zero]]
                norm == [i \in nodes |-> rowsum(dFm, i)]
                denominator == [i \in nodes |-> Div(One, Mul(norm[i], norm[i]))]
            IN  [i \in nodes |-> [j \in nodes |->
                    Mul(SpMul(denominator[i],
                              Sub(SpMul(norm_F[i], dFm[i][j]),
                                  SpMul(norm[i], F[i][j]))),
                        Sub(One, alpha))]]]

\* _converged(X1, X2)
Converged(X1, X2) ==
    LET d == MaxOver([i \in nodes |-> AbsVal(Sub(X2[i], X1[i]))], nodes)
    IN  [converged |-> Less(d, epsilon), delta |-> d]

\* P.fill(1.0 / self.N)
uniform == [i \in nodes |-> Rat(1, Cardinality(nodes))]

\* the loop body of _get_stationary_distribution without P1 /= P1.sum()
stationary_step_unnormalized(QQ, PP) ==
    [j \in nodes |-> SumOver([i \in nodes |-> Mul(QQ[i][j], PP[i])], nodes)]

\* one pass of the loop body of _get_stationary_distribution:
\* P1 = Q.T.dot(P.T).T; P1 /= P1.sum()
stationary_step(QQ, PP) ==
    LET raw == [j \in nodes |-> SumOver([i \in nodes |-> Mul(QQ[i][j], PP[i])], nodes)]
        total == SumOver(raw, nodes)
    IN  [j \in nodes |-> Div(raw[j], total)]

\* one pass of the loop body of _get_stationary_distribution_derivative:
\* the column sums of diag(dP[:, m]) * Q + diag(P) * dQ[m]
derivative_step(col, PP, QQ, dQm) ==
    [j \in nodes |->
        SumOver([i \in nodes |-> Add(SpMul(col[i], QQ[i][j]),
                                     SpMul(PP[i], dQm[i][j]))], nodes)]

\* whether a fixed-point loop is over: it broke out, or used up max_steps
loop_over(conv, count) == conv \/ count = max_steps

\* a warning printed after every loop
warns_always(conv) == TRUE

\* the condition under which the warning is printed after a loop
warns(conv) == ~conv

\* a feature that did not converge ends the loop over the features
next_feature_abort(k, conv) == IF conv THEN k + 1 ELSE M + 1

\* for m in xrange(self.M): the feature after k, whose loop ended with
\* converged = conv
next_feature(k, conv) == k + 1

(***************************************************************************)
(* Sampling and ranking                                                    *)
(***************************************************************************)
Min(a, b) == IF a < b THEN a ELSE b

\* the lists of k distinct elements of the population
random_sample(population, k) ==
    {s \in [1..k -> population] : \A a, b \in 1..k : a # b => s[a] # s[b]}

\* the number of negative samples drawn
sample_size(pos, others) == Min(Cardinality(pos), Cardinality(others))

\* _select_samples(user): the positive samples
select_positive(u) == neighbors(graph, u)

\* negative samples drawn from all candidates
select_others_all(pos) == candidates

\* _select_samples(user): the population the negative samples are drawn from
select_others(pos) == candidates \ pos

\* the rank dict without the test for neighbors of the user
rank_filter_unconnected(u) == {k \in nodes : isinstance(k, Repository)}

\* recommend: the keys of the rank dict handed to recommend_by_rank
rank_filter(u) ==
    {k \in nodes : isinstance(k, Repository) /\ k \notin neighbors(graph, u)}

\* recommend_by_rank(rank, n): the possible sets of the n best nodes
recommend_by_rank(rk, nn) ==
    {S \in SUBSET (DOMAIN rk) :
        /\ Cardinality(S) = Min(nn, Cardinality(DOMAIN rk))
        /\ \A a \in S, b \in (DOMAIN rk) \ S : ~Less(rk[a], rk[b])}

(***************************************************************************)
(* Initial state and actions                                               *)
(***************************************************************************)
\* the value of a variable that is not bound yet
None == <<>>

NoSample == /\ user = None /\ positive = {} /\ negative = <<>> /\ pairs = {}
NoWalk == /\ w = None /\ A = None /\ dA = None /\ Q = None /\ dQ = None
NoPrimal ==
    /\ P = None /\ P1 = None /\ converged = FALSE /\ delta = Zero
    /\ steps = 0 /\ warned = FALSE
NoDerivative ==
    /\ dP = None /\ dPm = None /\ m = 0 /\ dconverged = None
    /\ dsteps = None /\ dwarned = {}
NoResult == /\ rank = None /\ n = 0 /\ result = {}

\* SupervisedRWRecommender(data_path, max_steps, alpha) and the start of
\* load_graph(path, graph_type)
Init ==
    /\ metadata \in {GRAPH_METADATA[t] : t \in DOMAIN GRAPH_METADATA}
    /\ graph = EmptyGraph
    /\ alpha \in {Rat(a[1], a[2]) : a \in AlphaChoices}
    /\ max_steps \in 0..MaxSteps
    /\ pc = "load"
    /\ nodes = {} /\ candidates = {} /\ features = None
    /\ phase = "none"
    /\ NoSample /\ NoWalk /\ NoPrimal /\ NoDerivative /\ NoResult

\* load_graph: one item of a data file whose repositories are repos
LoadItem(repos) ==
    /\ pc = "load"
    /\ \E t \in Ids(metadata.tail, repos), h \in Ids(metadata.head, repos) :
          graph' = add_edge(graph, metadata.directed,
                            Entity(metadata.tail, t), Entity(metadata.head, h))
    /\ UNCHANGED <<configVars, pc, trainVars, sampleVars, phase, walkVars,
                   primalVars, derivVars, resultVars>>

AddEdge == LoadItem(RepoIds)

AddEdgeSample == LoadItem(SampleRepoIds)

\* train(graph); to_scipy_sparse_matrix rejects a graph without nodes
Train ==
    /\ pc = "load"
    /\ graph.node # {}
    /\ nodes' = graph.node
    /\ candidates' = {x \in graph.node : isinstance(x, Repository)}
    /\ features' = get_feature_matrix(graph.adj)
    /\ pc' = "trained"
    /\ UNCHANGED <<configVars, graph, sampleVars, phase, walkVars,
                   primalVars, derivVars, resultVars>>

\* recommend(user, n) up to the call of the optimizer: _select_samples and
\* the pairs
Recommend ==
    /\ pc \in {"trained", "done"}
    /\ \E u \in {x \in nodes : isinstance(x, User)} :
          LET pos == select_positive(u)
              others == select_others(pos)
          IN  \E neg \in random_sample(others, sample_size(pos, others)) :
                 /\ user' = u
                 /\ positive' = pos
                 /\ negative' = neg
                 /\ pairs' = {<<neg[a], v>> : a \in DOMAIN neg, v \in pos}
    /\ phase' = "start"
    /\ pc' = "optimize"
    /\ w' = None /\ A' = None /\ dA' = None /\ Q' = None /\ dQ' = None
    /\ P' = None /\ P1' = None /\ converged' = FALSE /\ delta' = Zero
    /\ steps' = 0 /\ warned' = FALSE
    /\ dP' = None /\ dPm' = None /\ m' = 0 /\ dconverged' = None
    /\ dsteps' = None /\ dwarned' = {}
    /\ rank' = None /\ n' = 0 /\ result' = {}
    /\ UNCHANGED <<configVars, graph, trainVars>>

\* the optimizer calls _loss_function(w, root, pairs): edge strengths, Q, dQ,
\* and the start of _get_stationary_distribution
LossFunction ==
    /\ pc = "optimize"
    /\ \E ww \in WeightChoices :
          LET s == get_edge_strength(ww)
          IN  /\ w' = ww
              /\ A' = s.A
              /\ dA' = s.dA
              /\ Q' = get_transition_probability(s.A, user)
              /\ dQ' = get_transition_probability_derivative(s.A, s.dA)
    /\ phase' = "loss"
    /\ pc' = "primal"
    /\ P' = uniform /\ P1' = None /\ converged' = FALSE /\ delta' = Zero
    /\ steps' = 0 /\ warned' = FALSE
    /\ dP' = None /\ dPm' = None /\ m' = 0 /\ dconverged' = None
    /\ dsteps' = None /\ dwarned' = {}
    /\ UNCHANGED <<configVars, graph, trainVars, sampleVars, resultVars>>

\* one iteration of the loop of _get_stationary_distribution
StationaryIterate ==
    /\ pc = "primal"
    /\ ~loop_over(converged, steps)
    /\ P1' = stationary_step(Q, P)
    /\ LET c == Converged(P, P1')
       IN  /\ converged' = c.converged
           /\ delta' = c.delta
           /\ P' = IF c.converged THEN P ELSE P1'
    /\ steps' = steps + 1
    /\ UNCHANGED <<configVars, graph, pc, trainVars, sampleVars, phase,
                   walkVars, warned, derivVars, resultVars>>

\* _get_stationary_distribution returns into _loss_function, which starts
\* _get_stationary_distribution_derivative
StationaryReturn ==
    /\ pc = "primal"
    /\ phase = "loss"
    /\ loop_over(converged, steps)
    /\ warned' = warns(converged)
    /\ dP' = [k \in FeatureIndex |-> [i \in nodes |-> Zero]]
    /\ dPm' = [k \in FeatureIndex |-> None]
    /\ dconverged' = [k \in FeatureIndex |-> FALSE]
    /\ dsteps' = [k \in FeatureIndex |-> 0]
    /\ dwarned' = {}
    /\ m' = 1
    /\ pc' = "derivative"
    /\ UNCHANGED <<configVars, graph, trainVars, sampleVars, phase, walkVars,
                   P, P1, converged, delta, steps, resultVars>>

\* one iteration of the inner loop of
\* _get_stationary_distribution_derivative, for feature m
DerivativeIterate ==
    /\ pc = "derivative"
    /\ m <= M
    /\ ~loop_over(dconverged[m], dsteps[m])
    /\ dPm' = [dPm EXCEPT ![m] = derivative_step(dP[m], P, Q, dQ[m])]
    /\ LET c == Converged(dP[m], dPm'[m])
       IN  /\ dconverged' = [dconverged EXCEPT ![m] = c.converged]
           /\ dP' = IF c.converged THEN dP ELSE [dP EXCEPT ![m] = dPm'[m]]
    /\ dsteps' = [dsteps EXCEPT ![m] = @ + 1]
    /\ UNCHANGED <<configVars, graph, pc, trainVars, sampleVars, phase,
                   walkVars, primalVars, m, dwarned, resultVars>>

\* the end of the inner loop for feature m: the warning, and the next m
DerivativeNext ==
    /\ pc = "derivative"
    /\ m <= M
    /\ loop_over(dconverged[m], dsteps[m])
    /\ dwarned' = IF warns(dconverged[m]) THEN dwarned \cup {m} ELSE dwarned
    /\ m' = next_feature(m, dconverged[m])
    /\ UNCHANGED <<configVars, graph, pc, trainVars, sampleVars, phase,
                   walkVars, primalVars, dP, dPm, dconverged, dsteps,
                   resultVars>>

\* _get_stationary_distribution_derivative returns dP, and _loss_function
\* hands objective and gradient to the optimizer; its locals are gone
LossReturn ==
    /\ pc = "derivative"
    /\ m = M + 1
    /\ pc' = "optimize"
    /\ w' = None /\ A' = None /\ dA' = None /\ Q' = None /\ dQ' = None
    /\ P' = None /\ P1' = None /\ converged' = FALSE /\ delta' = Zero
    /\ steps' = 0 /\ warned' = FALSE
    /\ dP' = None /\ dPm' = None /\ m' = 0 /\ dconverged' = None
    /\ dsteps' = None /\ dwarned' = {}
    /\ UNCHANGED <<configVars, graph, trainVars, sampleVars, phase,
                   resultVars>>

\* the optimizer returns weights w; _get_rank computes A and Q for them and
\* starts _get_stationary_distribution
GetRank ==
    /\ pc = "optimize"
    /\ phase = "loss"
    /\ \E ww \in WeightChoices :
          LET s == get_edge_strength(ww)
          IN  /\ w' = ww
              /\ A' = s.A
              /\ Q' = get_transition_probability(s.A, user)
    /\ phase' = "final"
    /\ pc' = "primal"
    /\ P' = uniform /\ P1' = None /\ converged' = FALSE /\ delta' = Zero
    /\ steps' = 0 /\ warned' = FALSE
    /\ UNCHANGED <<configVars, graph, trainVars, sampleVars, dA, dQ,
                   derivVars, resultVars>>

\* _get_stationary_distribution returns into _get_rank, and recommend
\* filters the rank and returns the n best
RecommendReturn ==
    /\ pc = "primal"
    /\ phase = "final"
    /\ loop_over(converged, steps)
    /\ warned' = warns(converged)
    /\ rank' = [k \in rank_filter(user) |-> P[k]]
    /\ \E nn \in 0..MaxRepos :
          /\ n' = nn
          /\ result' \in recommend_by_rank(rank', nn)
    /\ pc' = "done"
    /\ UNCHANGED <<configVars, graph, trainVars, sampleVars, phase, walkVars,
                   P, P1, converged, delta, steps, derivVars>>

Next ==
    \/ AddEdge
    \/ Train
    \/ Recommend
    \/ LossFunction
    \/ StationaryIterate
    \/ StationaryReturn
    \/ DerivativeIterate
    \/ DerivativeNext
    \/ LossReturn
    \/ GetRank
    \/ RecommendReturn

Spec == Init /\ [][Next]_vars

\* loading, training and the sampling of recommend, on larger graphs
SampleNext ==
    \/ AddEdgeSample
    \/ Train
    \/ Recommend

SampleSpec == Init /\ [][SampleNext]_vars

(***************************************************************************)
(* Properties                                                              *)
(***************************************************************************)
\* the nodes with at least one outgoing edge
HasOutEdge(i) == \E j \in graph.node : <<i, j>> \in graph.adj

\* C1: every row of Q sums to 1 when the row's node has an outgoing edge;
\* the row of a node without outgoing edges sums to alpha, all of it in the
\* column of the root.
C1_RowSums ==
    Q # None =>
        \A i \in nodes :
            IF HasOutEdge(i)
            THEN rowsum(Q, i) = One
            ELSE /\ rowsum(Q, i) = alpha
                 /\ \A j \in nodes : Q[i][j] = IF j = user THEN alpha ELSE Zero

\* a transition matrix is built for a graph with a row of each kind
C1_Witness ==
    /\ Q # None
    /\ \E i \in nodes : ~HasOutEdge(i)
    /\ \E i \in nodes : HasOutEdge(i) /\ i # user

\* C2: the vector P of _get_stationary_distribution sums to 1 at every point
\* of the loop and at its return, however the loop ends.
C2_SumsToOne == P # None => SumOver(P, nodes) = One

\* the loop used up max_steps > 0 without converging, on a graph where a row
\* of Q sums to alpha
C2_Witness ==
    /\ pc = "primal"
    /\ steps = max_steps /\ steps > 0 /\ ~converged
    /\ \E i \in nodes : ~HasOutEdge(i)

\* C3: the keys of the rank handed to recommend_by_rank are exactly the
\* Repository nodes of the graph with no edge to or from the user, and the
\* nodes returned are among them.
C3_RankFilter ==
    pc = "done" =>
        /\ DOMAIN rank =
              {k \in graph.node :
                  /\ k[1] = Repository
                  /\ <<user, k>> \notin graph.adj
                  /\ <<k, user>> \notin graph.adj}
        /\ result \subseteq DOMAIN rank

\* recommend returned a repository for a user who has another repository
C3_Witness ==
    /\ pc = "done"
    /\ result # {}
    /\ \E k \in graph.node : k[1] = Repository /\ <<user, k>> \in graph.adj

\* C4: the primal loop runs at most max_steps iterations, inside one of its
\* two callers; its values are finite; once it has returned, the warning
\* was printed exactly when the convergence test never succeeded, and then
\* all max_steps iterations ran and P is the last computed iterate (the
\* initial vector when max_steps is 0).
C4_PrimalLoop ==
    /\ steps <= max_steps
    /\ pc = "primal" =>
          /\ phase \in {"loss", "final"}
          /\ \A i \in nodes : IsFinite(P[i])
          /\ ~warned
    /\ pc \in {"derivative", "done"} =>
          /\ warned <=> ~converged
          /\ ~converged =>
                /\ steps = max_steps
                /\ P = IF steps = 0 THEN uniform ELSE P1
          /\ \A i \in nodes : IsFinite(P[i])

\* the loop returned after max_steps > 0 iterations without converging
C4_Witness ==
    /\ pc \in {"derivative", "done"}
    /\ warned /\ steps = max_steps /\ steps > 0

\* C5: with an empty positive sample set the loss function is never
\* evaluated, that is the optimizer is not run.
C5_EmptyPositiveNotOptimized == ~(phase = "loss" /\ positive = {})

\* C6: the positive samples are exactly the Repository neighbors of the
\* user.
C6_PositiveAreRepositories ==
    user # None =>
        positive = {v \in graph.node :
                       <<user, v>> \in graph.adj /\ v[1] = Repository}

\* the Repository nodes that are not neighbors of the user
Eligible ==
    {v \in graph.node : v[1] = Repository /\ <<user, v>> \notin graph.adj}

\* C7: the negative samples are pairwise distinct Repository nodes that are
\* not neighbors of the user, as many as the smaller of the number of
\* positive samples and the number of such nodes.
C7_NegativeSample ==
    user # None =>
        /\ \A a, b \in DOMAIN negative : a # b => negative[a] # negative[b]
        /\ \A a \in DOMAIN negative : negative[a] \in Eligible
        /\ Len(negative) = Min(Cardinality(positive), Cardinality(Eligible))

\* two negative samples were drawn for a user with repositories left over
C7_Witness ==
    /\ user # None
    /\ Len(negative) = 2
    /\ Cardinality(positive) = 2

\* the quotient rule for entry (i, j) of the derivative of the row
\* normalisation of F, for feature k, scaled by 1 - alpha
QuotientRule(k, i, j) ==
    LET F(a, b) == coo(A, a, b)
        dF(a, b) == IF <<a, b>> \in graph.adj THEN dA[<<a, b>>][k] ELSE Zero
        sF == SumOver([b \in nodes |-> F(i, b)], nodes)
        sdF == SumOver([b \in nodes |-> dF(i, b)], nodes)
    IN  Mul(Sub(One, alpha),
            Div(Sub(Mul(sF, dF(i, j)), Mul(sdF, F(i, j))), Mul(sF, sF)))

\* C8: every row of dQ[k] with an outgoing edge is the quotient rule with
\* the squared row sum of F as denominator.
C8_QuotientRule ==
    dQ # None =>
        \A k \in FeatureIndex : \A i, j \in nodes :
            HasOutEdge(i) => dQ[k][i][j] = QuotientRule(k, i, j)

\* the denominator the code divides row i of dQ[k] by
Denominator(k, i) ==
    LET s == SumOver([b \in nodes |->
                        IF <<i, b>> \in graph.adj THEN dA[<<i, b>>][k] ELSE Zero],
                     nodes)
    IN  Mul(s, s)

\* C9: every row of dQ[k] whose denominator is zero is all zero.
C9_ZeroRows ==
    dQ # None =>
        \A k \in FeatureIndex : \A i \in nodes :
            Denominator(k, i) = Zero => \A j \in nodes : dQ[k][i][j] = Zero

\* C10: in the derivative loops no feature runs more than max_steps
\* iterations; a feature not reached yet has run none, holds the zero vector
\* and has its flag unset; a feature that is done converged or ran max_steps
\* iterations, warned exactly when it did not converge, and then holds its
\* last iterate; the feature index never passes M + 1, where the call
\* returns.
C10_DerivativeLoops ==
    pc = "derivative" =>
        /\ m \in 1..(M + 1)
        /\ phase = "loss"
        /\ \A k \in FeatureIndex :
              /\ dsteps[k] <= max_steps
              /\ k >= m /\ dsteps[k] = 0 =>
                    /\ dP[k] = [i \in nodes |-> Zero]
                    /\ ~dconverged[k]
              /\ k > m => dsteps[k] = 0 /\ k \notin dwarned
              /\ k < m =>
                    /\ dconverged[k] \/ dsteps[k] = max_steps
                    /\ k \in dwarned <=> ~dconverged[k]
                    /\ ~dconverged[k] /\ dsteps[k] > 0 => dP[k] = dPm[k]

\* all features are done, the first did not converge in max_steps > 0
\* iterations, and a later one was iterated all the same
C10_Witness ==
    /\ pc = "derivative"
    /\ m = M + 1
    /\ 1 \in dwarned
    /\ dsteps[1] > 0
    /\ \E k \in FeatureIndex : k > 1 /\ dsteps[k] > 0
====
